---- MODULE Spec2Model ----
(***************************************************************************)
(* Model of the request plumbing of the Qualtrics MCP server:              *)
(*   - RateLimiter.checkLimit          (src/src/services/rate-limiter.ts)  *)
(*   - QualtricsClient.makeRequest and downloadResponseExportFile          *)
(*                                      (src/src/server.ts)                *)
(*   - the export_responses / export_responses_filtered tool handlers      *)
(*                                      (src/src/tools/response-tools.ts)  *)
(* Time is the millisecond clock read by Date.now().  Every event carries  *)
(* its instant; timers fire when they are due, so no event is placed after *)
(* a timer that is still pending.                                          *)
(***************************************************************************)
EXTENDS Integers, Sequences, FiniteSets, TLC

VARIABLES
    now,          \* Date.now(), in ms
    enabled,      \* RateLimiter.enabled
    maxRequests,  \* RateLimiter.maxRequests
    requests,     \* RateLimiter.requests: sequence of stored timestamps
    pc,           \* per caller: position inside checkLimit
    callNow,      \* per caller: the local constant `now` of checkLimit
    wakeAt,       \* per caller: instant at which its setTimeout is due
    admitted,     \* history: one record per checkLimit() call that returned
    http,         \* per caller: its QualtricsClient call (makeRequest / download)
    ex            \* one invocation of export_responses / export_responses_filtered

limiterVars == <<enabled, maxRequests, requests, pc, callNow, wakeAt, admitted>>
vars == <<now, enabled, maxRequests, requests, pc, callNow, wakeAt, admitted, http, ex>>

----------------------------------------------------------------------------
(* Bounds of the model *)

NumProcs == 2          \* logical operations that may call concurrently
MaxCalls == 3          \* checkLimit() calls in one behaviour
MaxRate == 2           \* largest requestsPerMinute explored

Procs == 1..NumProcs
Deltas == {1, 59999, 60000}   \* idle time between two events, in ms

----------------------------------------------------------------------------
(* RateLimiter *)

windowMs == 60000
bufferMs == 100

filter_Inclusive(s, t) == SelectSeq(s, LAMBDA time : t - time <= windowMs)

filter_KeepAll(s, t) == s

RECURSIVE filter(_, _)
\* line 22: this.requests.filter(time => now - time < this.windowMs), now = t
filter(s, t) ==
    IF s = <<>> THEN <<>>
    ELSE IF t - Head(s) < windowMs
         THEN <<Head(s)>> \o filter(Tail(s), t)
         ELSE filter(Tail(s), t)

\* Math.min(...this.requests), for a non-empty list
oldestRequest(s) ==
    CHOOSE m \in {s[i] : i \in DOMAIN s} : \A i \in DOMAIN s : m <= s[i]

waitTime_NoBuffer(s, t) == windowMs - (t - oldestRequest(s))

\* line 26
waitTime(s, t) == windowMs - (t - oldestRequest(s)) + bufferMs

LimiterOff_Never == FALSE

\* line 19
LimiterOff == ~enabled

\* line 24
LimitReached(s) == Len(s) >= maxRequests

\* line 32: the timestamp pushed by a call whose local `now` is t and which
\* reaches line 32 at instant r
PushedStamp(t, r) == t

\* the call made at instant c returns at instant r
Returned(c, r, stamp, suspended) ==
    admitted' = Append(admitted,
        [called |-> c, at |-> r, stamp |-> stamp, suspended |-> suspended])

InFlight == {p \in Procs : pc[p] = "waiting"}

CallBudget == Len(admitted) + Cardinality(InFlight) < MaxCalls

\* instants at which the next call may arrive: right now or after some idle
\* time, but never after a timer that is still pending
EventInstants(D) ==
    {t \in {now} \cup {now + d : d \in D} :
        /\ \A p \in InFlight : t <= wakeAt[p]
        /\ \A p \in Procs : http[p].timerDue >= 0 => t <= http[p].timerDue}

Arrivals == EventInstants(Deltas)

\* checkLimit() called at instant t, from its entry to its first suspension
\* or its return
CheckLimitCall(p, t) ==
    /\ pc[p] = "idle"
    /\ CallBudget
    /\ now' = t
    /\ IF LimiterOff
       THEN /\ Returned(t, t, -1, FALSE)
            /\ UNCHANGED <<requests, pc, callNow, wakeAt>>
       ELSE LET pruned == filter(requests, t) IN
            IF LimitReached(pruned)
            THEN /\ requests' = pruned
                 /\ pc' = [pc EXCEPT ![p] = "waiting"]
                 /\ callNow' = [callNow EXCEPT ![p] = t]
                 /\ wakeAt' = [wakeAt EXCEPT ![p] = t + waitTime(pruned, t)]
                 /\ UNCHANGED admitted
            ELSE /\ requests' = Append(pruned, PushedStamp(t, t))
                 /\ Returned(t, t, PushedStamp(t, t), FALSE)
                 /\ UNCHANGED <<pc, callNow, wakeAt>>
    /\ UNCHANGED <<enabled, maxRequests>>

CheckLimitResume_NeverResolved(p) ==
    /\ pc[p] = "waiting"
    /\ \A q \in InFlight : wakeAt[p] <= wakeAt[q]
    /\ now' = wakeAt[p]
    /\ UNCHANGED <<limiterVars, http, ex>>

\* the timer of line 29 fires at its due instant: line 32, then return
CheckLimitResume(p) ==
    /\ pc[p] = "waiting"
    /\ \A q \in InFlight : wakeAt[p] <= wakeAt[q]
    /\ \A q \in Procs : http[q].timerDue >= 0 => wakeAt[p] <= http[q].timerDue
    /\ now' = wakeAt[p]
    /\ requests' = Append(requests, PushedStamp(callNow[p], wakeAt[p]))
    /\ Returned(callNow[p], wakeAt[p], PushedStamp(callNow[p], wakeAt[p]), TRUE)
    /\ pc' = [pc EXCEPT ![p] = "idle"]
    /\ UNCHANGED <<enabled, maxRequests, callNow, wakeAt>>

NoCall ==
    [op |-> "none", stage |-> "idle", issuedAt |-> -1, timerDue |-> -1,
     settledAt |-> -1,
     fetches |-> 0, admissions |-> 0, status |-> "", statusText |-> "",
     body |-> "", kind |-> "none", message |-> <<>>]

InitLimiter ==
    /\ now = 0
    /\ enabled \in BOOLEAN
    /\ maxRequests \in 1..MaxRate
    /\ requests = <<>>
    /\ pc = [p \in Procs |-> "idle"]
    /\ callNow = [p \in Procs |-> 0]
    /\ wakeAt = [p \in Procs |-> 0]
    /\ admitted = <<>>
    /\ http = [p \in Procs |-> NoCall]
    /\ ex = [pc |-> "none"]

Call ==
    \E p \in Procs : \E t \in Arrivals : CheckLimitCall(p, t) /\ UNCHANGED <<http, ex>>
Resume == \E p \in Procs : CheckLimitResume(p) /\ UNCHANGED <<http, ex>>

\* callers one at a time: a call starts only after the previous one returned
SequentialCall ==
    /\ InFlight = {}
    /\ \E p \in Procs : \E t \in Arrivals : CheckLimitCall(p, t) /\ UNCHANGED <<http, ex>>

NextLimiter == Call \/ Resume
NextSequential == SequentialCall \/ Resume

\* any number of logical operations share the limiter
SpecLimiter == InitLimiter /\ [][NextLimiter]_vars

\* each call starts after the previous one returned
SpecSequential == InitLimiter /\ [][NextSequential]_vars

\* the event loop runs every timer that is due: a pending setTimeout of
\* line 29 is not postponed for ever
SpecLimiterFair == SpecLimiter /\ WF_vars(Resume)

----------------------------------------------------------------------------
(* QualtricsClient: makeRequest and downloadResponseExportFile *)

timeout == 30000       \* config.server.timeout

Statuses == {"200", "404"}
StatusText(st) == IF st = "200" THEN "OK" ELSE "Not Found"
Bodies == {"{}", "quota"}       \* response body texts

\* response.ok
Ok(st) == st = "200"

\* lines 72-84: arm the deadline timer, then issue the fetch
IssueFetch(h, t) ==
    [h EXCEPT !.stage = "fetch", !.issuedAt = t, !.timerDue = t + timeout,
              !.fetches = @ + 1]

\* lines 144-148: the download issues its fetch with no signal and no timer
IssueDownloadFetch(h, t) ==
    [h EXCEPT !.op = "download", !.stage = "fetch", !.issuedAt = t,
              !.fetches = @ + 1]

\* line 70 returned
Admitted(h) == [h EXCEPT !.admissions = @ + 1]

\* line 90
ApiErrorMessage(st, txt, body) ==
    <<"Qualtrics API error: ", st, " ", txt, " - ", body>>

\* line 151
DownloadErrorMessage(st, txt, body) ==
    <<"Failed to download export file: ", st, " ", txt>>

Settle_TimerLeftArmed(h, t, kind, message) ==
    [h EXCEPT !.stage = "settled", !.settledAt = t,
              !.kind = kind, !.message = message]

\* the call settles at instant t; lines 86 and 95 have cleared the timer
Settle(h, t, kind, message) ==
    [h EXCEPT !.stage = "settled", !.timerDue = -1, !.settledAt = t,
              !.kind = kind, !.message = message]

\* lines 86-93: fetch resolved with the response head; the body is still to
\* be read by response.text() or response.json()
HeadReceived(h, st, body) ==
    [h EXCEPT !.stage = "body", !.timerDue = -1, !.status = st,
              !.statusText = StatusText(st), !.body = body]

\* lines 150-154
DownloadHeadReceived(h, t, st, body) ==
    IF ~Ok(st)
    THEN Settle([h EXCEPT !.status = st, !.statusText = StatusText(st), !.body = body],
                t, "error", DownloadErrorMessage(st, StatusText(st), body))
    ELSE [h EXCEPT !.stage = "body", !.status = st,
                   !.statusText = StatusText(st), !.body = body]

\* lines 89-93 and 154: the body has been read
BodyRead(h, t) ==
    IF Ok(h.status) \/ h.op = "download"
    THEN Settle(h, t, "value", <<h.body>>)
    ELSE Settle(h, t, "error", ApiErrorMessage(h.status, h.statusText, h.body))

Aborted_Retry(h, t) ==
    [h EXCEPT !.issuedAt = t, !.timerDue = t + timeout, !.fetches = @ + 1]

\* lines 94-98: the abort of line 73 rejected the fetch with an AbortError
Aborted(h, t) == Settle(h, t, "error", <<"Request timeout">>)

\* line 99, and any rejection that leaves downloadResponseExportFile
Failed(h, t) == Settle(h, t, "error", <<"fetch failed">>)

\* makeRequest called at instant t: line 70, and lines 72-84 if checkLimit
\* returned without suspending
MakeRequest(p, t) ==
    /\ http[p].stage = "idle"
    /\ CheckLimitCall(p, t)
    /\ http' = [http EXCEPT ![p] =
                  IF pc'[p] = "waiting"
                  THEN [@ EXCEPT !.op = "makeRequest", !.stage = "admission"]
                  ELSE IssueFetch(Admitted([@ EXCEPT !.op = "makeRequest"]), t)]

\* checkLimit returns after its wait: lines 72-84
MakeRequestAdmitted(p) ==
    /\ http[p].stage = "admission"
    /\ CheckLimitResume(p)
    /\ http' = [http EXCEPT ![p] = IssueFetch(Admitted(@), wakeAt[p])]

\* downloadResponseExportFile called at instant t: lines 144-148
Download(p, t) ==
    /\ http[p].stage = "idle"
    /\ now' = t
    /\ http' = [http EXCEPT ![p] = IssueDownloadFetch(@, t)]
    /\ UNCHANGED limiterVars

\* the response head arrives at instant t
FetchResolves(p, t, st, body) ==
    /\ http[p].stage = "fetch"
    /\ now' = t
    /\ http' = [http EXCEPT ![p] =
                  IF @.op = "download" THEN DownloadHeadReceived(@, t, st, body)
                  ELSE HeadReceived(@, st, body)]
    /\ UNCHANGED limiterVars

\* the body is complete at instant t
BodyArrives(p, t) ==
    /\ http[p].stage = "body"
    /\ now' = t
    /\ http' = [http EXCEPT ![p] = BodyRead(@, t)]
    /\ UNCHANGED limiterVars

\* the connection fails at instant t, before the head or while the body is read
TransportFails(p, t) ==
    /\ http[p].stage \in {"fetch", "body"}
    /\ now' = t
    /\ http' = [http EXCEPT ![p] = Failed(@, t)]
    /\ UNCHANGED limiterVars

\* the timer of line 73 fires at its due instant: controller.abort()
DeadlineFires(p) ==
    /\ http[p].timerDue >= 0
    /\ \A q \in Procs : http[q].timerDue >= 0 => http[p].timerDue <= http[q].timerDue
    /\ \A q \in InFlight : http[p].timerDue <= wakeAt[q]
    /\ now' = http[p].timerDue
    /\ http' = [http EXCEPT ![p] = Aborted(@, http[p].timerDue)]
    /\ UNCHANGED limiterVars

\* time a response body takes after its head, in ms: none, or longer than
\* the timeout
Latencies == {40000}
BodyInstants == EventInstants(Latencies)

ClientMakeRequest == \E p \in Procs : MakeRequest(p, now) /\ UNCHANGED ex
ClientDownload == \E p \in Procs : Download(p, now) /\ UNCHANGED ex
ClientAdmitted == \E p \in Procs : MakeRequestAdmitted(p) /\ UNCHANGED ex
ClientHead ==
    \E p \in Procs : \E st \in Statuses : \E body \in Bodies :
        FetchResolves(p, now, st, body) /\ UNCHANGED ex
ClientBody == \E p \in Procs : \E t \in BodyInstants : BodyArrives(p, t) /\ UNCHANGED ex
ClientFailure == \E p \in Procs : TransportFails(p, now) /\ UNCHANGED ex
ClientDeadline == \E p \in Procs : DeadlineFires(p) /\ UNCHANGED ex

NextClient ==
    \/ ClientMakeRequest
    \/ ClientDownload
    \/ ClientAdmitted
    \/ ClientHead
    \/ ClientBody
    \/ ClientFailure
    \/ ClientDeadline

\* a client whose limiter, when enabled, admits one request per window, so
\* that requests are admitted both at once and after a wait
InitClient == InitLimiter /\ maxRequests = 1

\* every caller performs one call of the client; the limiter is shared
SpecClient == InitClient /\ [][NextClient]_vars

----------------------------------------------------------------------------
(* The export tools: export_responses and export_responses_filtered *)

maxAttempts == 30            \* status checks of one polling loop
pollIntervalMs == 10000      \* the sleep before every status check
largeFileBytes == 102400     \* 100 * 1024

Tools == {"export_responses", "export_responses_filtered"}
Formats == {"undefined", "json", "csv"}           \* args.format
WaitArgs == {"undefined", "true", "false"}        \* args.waitForCompletion
SaveArgs == {"", "out.csv"}                       \* args.saveToFile, "" when omitted
Errors == {"Request timeout", "Qualtrics API error: 400 Bad Request - {}"}
\* what mkdir / writeFile reject with
SaveErrors == {"EACCES: permission denied"}
\* what JSON.parse throws
ParseErrors == {"Unexpected token"}
RemoteStatuses == {"inProgress", "failed", "complete"}   \* progress.result.status
Percents == {30, 60, 100}                         \* progress.result.percentComplete
FileIds == {"F_1", "F_2"}                         \* progress.result.fileId
Sizes == {largeFileBytes, largeFileBytes + 1}     \* Buffer.byteLength(fileData)

\* the filter arguments of export_responses_filtered; "undefined" when omitted
FilterKeys ==
    {"startDate", "endDate", "filterType", "includeDisplayOrder", "useLabels",
     "questionIds", "embeddedDataIds"}
NoFilterArgs == [k \in FilterKeys |-> "undefined"]
FilterArgs ==
    { NoFilterArgs,
      [NoFilterArgs EXCEPT !["startDate"] = "2024-01-01", !["endDate"] = "2024-12-31",
                           !["filterType"] = "complete",
                           !["includeDisplayOrder"] = "false", !["useLabels"] = "true",
                           !["questionIds"] = "QID1", !["embeddedDataIds"] = "ED1"],
      [NoFilterArgs EXCEPT !["startDate"] = "", !["filterType"] = "all",
                           !["questionIds"] = "QID1"],
      [NoFilterArgs EXCEPT !["endDate"] = "2024-12-31", !["filterType"] = "incomplete",
                           !["useLabels"] = "false"] }
\* export_responses has no filter arguments
ArgsOf(tool) == IF tool = "export_responses" THEN {NoFilterArgs} ELSE FilterArgs

\* the remote service numbers the jobs it accepts
NewProgressId(starts) == IF starts = 0 THEN "ES_1" ELSE "ES_2"

NoResult ==
    [status |-> "", isError |-> FALSE, progressId |-> "", originalError |-> "",
     fallbackError |-> "", savedToFile |-> FALSE, inline |-> FALSE,
     fileSize |-> -1, wasAutoSaved |-> FALSE, filePath |-> <<>>]

InitExport ==
    /\ now = 0
    /\ enabled = TRUE
    /\ maxRequests = 1
    /\ requests = <<>>
    /\ pc = [p \in Procs |-> "idle"]
    /\ callNow = [p \in Procs |-> 0]
    /\ wakeAt = [p \in Procs |-> 0]
    /\ admitted = <<>>
    /\ http = [p \in Procs |-> NoCall]
    /\ \E tool \in Tools, format \in Formats, wait \in WaitArgs, save \in SaveArgs :
       \E filterArgs \in ArgsOf(tool) :
          ex = [tool |-> tool, surveyId |-> "SV_1", format |-> format,
                waitForCompletion |-> wait, saveToFile |-> save, args |-> filterArgs,
                startRequests |-> <<>>,
                pc |-> "start", attempts |-> 0,
                progressId |-> "", fallbackProgressId |-> "", fileId |-> "",
                fileSizeBytes |-> -1, errorMessage |-> "",
                starts |-> 0, startFormats |-> <<>>, checks |-> 0, fallbackChecks |-> 0,
                downloads |-> 0, downloadedFileId |-> "", checksAtDownload |-> -1,
                hundredAt |-> 0, hundredFileId |-> "",
                polledAt |-> -1, failedSeen |-> FALSE,
                result |-> NoResult]

\* args.format ?? "json"
FormatOrDefault(format) == IF format = "undefined" THEN "json" ELSE format

NoWait_OnlyWhenOmitted(wait) == wait = "undefined"

\* a string argument that JavaScript takes as true in `if (args.x)`
Truthy(v) == v # "undefined" /\ v # ""

\* lines 186 and 271: args.filterType === "complete" ? "finished" : "unfinished"
CompletionFilter(filterType) ==
    IF filterType = "complete" THEN "finished" ELSE "unfinished"

\* lines 183-187 / 268-272: the date and completion entries of a filters object
DateAndCompletionFilters(a) ==
    {<<k, a[k]>> : k \in {j \in {"startDate", "endDate"} : Truthy(a[j])}}
    \cup (IF Truthy(a["filterType"]) /\ a["filterType"] # "all"
          THEN {<<"filterType", CompletionFilter(a["filterType"])>>} ELSE {})

\* lines 182-191: the filters of the primary request, as a set of
\* <<key, value>>; export_responses (line 28) passes none
Filters(tool, a) ==
    IF tool = "export_responses" THEN {}
    ELSE DateAndCompletionFilters(a)
         \cup {<<k, a[k]>> : k \in {j \in {"includeDisplayOrder", "useLabels"} :
                                        a[j] # "undefined"}}
         \cup {<<k, a[k]>> : k \in {j \in {"questionIds", "embeddedDataIds"} :
                                        Truthy(a[j])}}

FallbackFilters_AsPrimary(tool, a) == Filters(tool, a)

\* lines 267-272: the filters of the fallback request; export_responses
\* (line 94) passes none
FallbackFilters(tool, a) ==
    IF tool = "export_responses" THEN {} ELSE DateAndCompletionFilters(a)

\* server.ts lines 122-137: the request startResponseExport sends; an empty
\* filters object is passed as undefined (lines 196 and 277) and adds nothing
StartRequest(surveyId, format, filters) ==
    [surveyId |-> surveyId, format |-> format, filters |-> filters]

\* !args.waitForCompletion (lines 31 and 200)
NoWait(wait) == wait # "true"

Complete_OrRemoteFailed(percent, status) == percent = 100 \/ status = "failed"

\* progress.result.percentComplete === 100 (lines 46, 104, 216, 288); the
\* handlers never read progress.result.status
Complete(percent, status) == percent = 100

LoopContinues_OneMore(attempts) == attempts <= maxAttempts

\* attempts < maxAttempts (lines 42, 100, 212, 284)
LoopContinues(attempts) == attempts < maxAttempts

isLargeFile_Inclusive(fileSizeBytes) == fileSizeBytes >= largeFileBytes

\* fileSizeBytes > 100 * 1024 (lines 50 and 220, file-save.ts line 14)
isLargeFile(fileSizeBytes) == fileSizeBytes > largeFileBytes

FileIdForDownload_ProgressId(e) == e.progressId

\* the second argument of downloadResponseExportFile (lines 47 and 217)
FileIdForDownload(e) == e.fileId

Finish(e, result) == [e EXCEPT !.pc = "done", !.result = result]

CatchPrimary_ReportError(e, message) ==
    Finish([e EXCEPT !.errorMessage = message],
           [NoResult EXCEPT !.isError = TRUE, !.originalError = message])

\* the catch of lines 90-91 / 263-264: remember the message, start the
\* fallback; the locals of the try block (progress, fileData, ...) are gone
CatchPrimary(e, message) ==
    [e EXCEPT !.pc = "fbStart", !.errorMessage = message, !.attempts = 0,
              !.fileId = "", !.fileSizeBytes = -1,
              !.hundredFileId = "", !.downloadedFileId = "",
              !.failedSeen = FALSE]

CatchFallback_FallbackMessageOnly(e, message) ==
    Finish(e, [NoResult EXCEPT !.isError = TRUE, !.fallbackError = message])

CatchFallback_StartAgain(e, message) ==
    [e EXCEPT !.pc = "fbStart", !.attempts = 0, !.fileId = ""]

\* the catch of lines 127-136 / 313-318: an isError result whose text holds
\* both messages; it has no status property
CatchFallback(e, message) ==
    Finish(e, [NoResult EXCEPT !.isError = TRUE,
                               !.originalError = e.errorMessage,
                               !.fallbackError = message])

\* lines 28 / 193-197: the primary start request
PrimaryRequest(e) ==
    StartRequest(e.surveyId, FormatOrDefault(e.format), Filters(e.tool, e.args))

\* lines 94 / 274-278: the fallback start request
FallbackRequest(e) ==
    StartRequest(e.surveyId, "csv", FallbackFilters(e.tool, e.args))

\* lines 28-37 / 193-207: startResponseExport returned
StartReturns ==
    /\ ex.pc = "start"
    /\ LET pid == NewProgressId(ex.starts)
           e == [ex EXCEPT !.progressId = pid, !.starts = @ + 1,
                           !.startFormats = Append(@, FormatOrDefault(ex.format)),
                           !.startRequests = Append(@, PrimaryRequest(ex))]
       IN ex' = IF NoWait(ex.waitForCompletion)
                THEN Finish(e, [NoResult EXCEPT !.status = "started",
                                                !.progressId = pid])
                ELSE [e EXCEPT !.pc = "sleep", !.attempts = 0, !.polledAt = now]
    /\ UNCHANGED <<now, limiterVars, http>>

\* startResponseExport raised: the request was sent and failed
StartRaises(message) ==
    /\ ex.pc = "start"
    /\ ex' = CatchPrimary([ex EXCEPT !.starts = @ + 1,
                              !.startFormats = Append(@, FormatOrDefault(ex.format)),
                              !.startRequests = Append(@, PrimaryRequest(ex))],
                          message)
    /\ UNCHANGED <<now, limiterVars, http>>

SleepUntil_OneSecond(t) == t + 1000

\* lines 43, 101, 213, 285: setTimeout(resolve, 10000) set at instant t
SleepUntil(t) == t + pollIntervalMs

\* line 43 / 213: the 10 s timer fired
SleepElapses ==
    /\ ex.pc = "sleep"
    /\ now' = SleepUntil(now)
    /\ ex' = [ex EXCEPT !.pc = "check"]
    /\ UNCHANGED <<limiterVars, http>>

\* lines 44-46 and 82-89 / 214-216 and 254-262: getResponseExportProgress
\* returned
CheckReturns(percent, fileId, status) ==
    /\ ex.pc = "check"
    /\ LET n == ex.checks + 1
           e == [ex EXCEPT !.checks = n, !.polledAt = now,
                     !.failedSeen = @ \/ (status = "failed" /\ percent # 100),
                     !.hundredAt = IF @ = 0 /\ percent = 100 THEN n ELSE @,
                     !.hundredFileId = IF ex.hundredAt = 0 /\ percent = 100
                                       THEN fileId ELSE @]
       IN ex' = IF Complete(percent, status)
                THEN [e EXCEPT !.pc = "download", !.fileId = fileId]
                ELSE IF LoopContinues(ex.attempts + 1)
                     THEN [e EXCEPT !.pc = "sleep", !.attempts = @ + 1]
                     ELSE Finish([e EXCEPT !.attempts = @ + 1],
                                 [NoResult EXCEPT !.status = "timeout",
                                                  !.progressId = ex.progressId])
    /\ UNCHANGED <<now, limiterVars, http>>

CheckRaises(message) ==
    /\ ex.pc = "check"
    /\ ex' = CatchPrimary([ex EXCEPT !.checks = @ + 1], message)
    /\ UNCHANGED <<now, limiterVars, http>>

\* the result of lines 70-79 / 241-251
InlineResult(e, size) ==
    [NoResult EXCEPT !.status = "completed", !.inline = TRUE, !.fileSize = size]

\* lines 47-52 and 69-80 / 217-222 and 240-252: downloadResponseExportFile
\* returned fileData of `size` bytes; validJson tells whether JSON.parse accepts it
DownloadReturns(size, validJson) ==
    /\ ex.pc = "download"
    /\ LET e == [ex EXCEPT !.downloads = @ + 1,
                           !.downloadedFileId = FileIdForDownload(ex),
                           !.checksAtDownload = ex.checks,
                           !.fileSizeBytes = size]
       IN ex' = IF ex.saveToFile # "" \/ isLargeFile(size)
                THEN [e EXCEPT !.pc = "save"]
                ELSE IF ex.format = "json" /\ ~validJson
                     THEN CatchPrimary(e, CHOOSE m \in ParseErrors : TRUE)
                     ELSE Finish(e, InlineResult(e, size))
    /\ UNCHANGED <<now, limiterVars, http>>

DownloadRaises(message) ==
    /\ ex.pc = "download"
    /\ ex' = CatchPrimary([ex EXCEPT !.downloads = @ + 1,
                                     !.downloadedFileId = FileIdForDownload(ex),
                                     !.checksAtDownload = ex.checks], message)
    /\ UNCHANGED <<now, limiterVars, http>>

SavedResult_ViaFallback(status, size, saveToFile) ==
    [NoResult EXCEPT !.status = "completed_via_fallback", !.savedToFile = TRUE,
                     !.fileSize = size,
                     !.wasAutoSaved = isLargeFile(size) /\ saveToFile = ""]

\* file-save.ts lines 12-39: the value saveExportToFile returns
SavedResult(status, size, saveToFile) ==
    [NoResult EXCEPT !.status = status, !.savedToFile = TRUE, !.fileSize = size,
                     !.wasAutoSaved = isLargeFile(size) /\ saveToFile = ""]

\* the fifth argument of saveExportToFile (lines 223 and 290)
Suffix(tool) == IF tool = "export_responses_filtered" THEN "filtered" ELSE ""

\* file-save.ts lines 16-29: the caller's file name under Downloads, or a
\* name made of the survey, the suffix and the time of the call
filePath(surveyId, format, saveToFile, suffix) ==
    IF saveToFile # ""
    THEN <<"Downloads", saveToFile>>
    ELSE <<"Downloads", "survey", surveyId, suffix, "timestamp",
           IF format = "json" THEN "json" ELSE "csv">>

\* lines 53-68 / 223-239: saveExportToFile returned
SaveReturns ==
    /\ ex.pc = "save"
    /\ ex' = Finish(ex, [SavedResult("completed", ex.fileSizeBytes, ex.saveToFile)
                            EXCEPT !.filePath = filePath(ex.surveyId,
                                                         FormatOrDefault(ex.format),
                                                         ex.saveToFile, Suffix(ex.tool))])
    /\ UNCHANGED <<now, limiterVars, http>>

\* file-save.ts lines 31-32: mkdir or writeFile rejected
SaveRaises(message) ==
    /\ ex.pc = "save"
    /\ ex' = CatchPrimary(ex, message)
    /\ UNCHANGED <<now, limiterVars, http>>

\* lines 94-95 / 274-279: the fallback startResponseExport returned
FallbackStartReturns ==
    /\ ex.pc = "fbStart"
    /\ ex' = [ex EXCEPT !.pc = "fbSleep", !.attempts = 0, !.polledAt = now,
                        !.fallbackProgressId = NewProgressId(ex.starts),
                        !.starts = @ + 1, !.startFormats = Append(@, "csv"),
                        !.startRequests = Append(@, FallbackRequest(ex))]
    /\ UNCHANGED <<now, limiterVars, http>>

FallbackStartRaises(message) ==
    /\ ex.pc = "fbStart"
    /\ ex' = CatchFallback([ex EXCEPT !.starts = @ + 1,
                                      !.startFormats = Append(@, "csv"),
                                      !.startRequests = Append(@, FallbackRequest(ex))],
                           message)
    /\ UNCHANGED <<now, limiterVars, http>>

\* line 101 / 285
FallbackSleepElapses ==
    /\ ex.pc = "fbSleep"
    /\ now' = SleepUntil(now)
    /\ ex' = [ex EXCEPT !.pc = "fbCheck"]
    /\ UNCHANGED <<limiterVars, http>>

\* lines 102-104 and 118-126 / 286-288 and 303-312
FallbackCheckReturns(percent, fileId, status) ==
    /\ ex.pc = "fbCheck"
    /\ LET e == [ex EXCEPT !.fallbackChecks = @ + 1, !.polledAt = now] IN
       ex' = IF Complete(percent, status)
             THEN [e EXCEPT !.pc = "fbDownload", !.fileId = fileId]
             ELSE IF LoopContinues(ex.attempts + 1)
                  THEN [e EXCEPT !.pc = "fbSleep", !.attempts = @ + 1]
                  ELSE Finish([e EXCEPT !.attempts = @ + 1],
                              [NoResult EXCEPT !.status = "fallback_timeout",
                                               !.originalError = ex.errorMessage,
                                               !.progressId = ex.fallbackProgressId])
    /\ UNCHANGED <<now, limiterVars, http>>

FallbackCheckRaises(message) ==
    /\ ex.pc = "fbCheck"
    /\ ex' = CatchFallback([ex EXCEPT !.fallbackChecks = @ + 1], message)
    /\ UNCHANGED <<now, limiterVars, http>>

FallbackSaveName_FromCaller(e) == e.saveToFile

\* lines 106 / 290: the fallback passes no file name to saveExportToFile
FallbackSaveName(e) == ""

\* line 105 / 289
FallbackDownloadReturns(size) ==
    /\ ex.pc = "fbDownload"
    /\ ex' = [ex EXCEPT !.pc = "fbSave", !.downloads = @ + 1,
                        !.downloadedFileId = FileIdForDownload(ex),
                        !.fileSizeBytes = size]
    /\ UNCHANGED <<now, limiterVars, http>>

FallbackDownloadRaises(message) ==
    /\ ex.pc = "fbDownload"
    /\ ex' = CatchFallback([ex EXCEPT !.downloads = @ + 1,
                                      !.downloadedFileId = FileIdForDownload(ex)],
                           message)
    /\ UNCHANGED <<now, limiterVars, http>>

\* lines 106-116 / 290-301: saveExportToFile(fileData, surveyId, "csv")
FallbackSaveReturns ==
    /\ ex.pc = "fbSave"
    /\ ex' = Finish(ex, [SavedResult("completed_via_fallback", ex.fileSizeBytes,
                                     FallbackSaveName(ex))
                            EXCEPT !.originalError = ex.errorMessage,
                                   !.filePath = filePath(ex.surveyId, "csv",
                                                         FallbackSaveName(ex),
                                                         Suffix(ex.tool))])
    /\ UNCHANGED <<now, limiterVars, http>>

FallbackSaveRaises(message) ==
    /\ ex.pc = "fbSave"
    /\ ex' = CatchFallback(ex, message)
    /\ UNCHANGED <<now, limiterVars, http>>

ExportCheck ==
    \E percent \in Percents, fileId \in FileIds, status \in RemoteStatuses :
        CheckReturns(percent, fileId, status)
ExportDownload == \E size \in Sizes, validJson \in BOOLEAN : DownloadReturns(size, validJson)
ExportRaises ==
    \E message \in Errors :
        \/ StartRaises(message)
        \/ CheckRaises(message)
        \/ DownloadRaises(message)
ExportSaveRaises == \E message \in SaveErrors : SaveRaises(message)
FallbackCheck ==
    \E percent \in Percents, fileId \in FileIds, status \in RemoteStatuses :
        FallbackCheckReturns(percent, fileId, status)
FallbackDownload == \E size \in Sizes : FallbackDownloadReturns(size)
FallbackRaises ==
    \E message \in Errors :
        \/ FallbackStartRaises(message)
        \/ FallbackCheckRaises(message)
        \/ FallbackDownloadRaises(message)
FallbackSaveFails == \E message \in SaveErrors : FallbackSaveRaises(message)

NextExport ==
    \/ StartReturns
    \/ SleepElapses
    \/ ExportCheck
    \/ ExportDownload
    \/ SaveReturns
    \/ ExportRaises
    \/ ExportSaveRaises
    \/ FallbackStartReturns
    \/ FallbackSleepElapses
    \/ FallbackCheck
    \/ FallbackDownload
    \/ FallbackSaveReturns
    \/ FallbackRaises
    \/ FallbackSaveFails

\* one invocation of an export tool; every client call returns or raises
SpecExport == InitExport /\ [][NextExport]_vars

----------------------------------------------------------------------------
(* The delete_survey tool; `ex` holds the state of the invocation *)

SurveyIds == {"SV_1", "SV_2"}                     \* args.surveyId
Names == {"Alpha", "Beta"}                        \* args.confirmName, non-empty
NameFields == {"undefined", ""} \cup Names         \* result.name, result.SurveyName

NoToolResult == [isError |-> FALSE, kind |-> "", message |-> <<>>]

InitDelete ==
    /\ now = 0
    /\ enabled = TRUE
    /\ maxRequests = 1
    /\ requests = <<>>
    /\ pc = [p \in Procs |-> "idle"]
    /\ callNow = [p \in Procs |-> 0]
    /\ wakeAt = [p \in Procs |-> 0]
    /\ admitted = <<>>
    /\ http = [p \in Procs |-> NoCall]
    /\ \E surveyId \in SurveyIds, confirmName \in Names :
          ex = [tool |-> "delete_survey", surveyId |-> surveyId,
                confirmName |-> confirmName, pc |-> "start",
                name |-> "undefined", SurveyName |-> "undefined",
                sent |-> <<>>, result |-> NoToolResult]

\* block-tools.ts line 317: surveyInfo.result.name || surveyInfo.result.SurveyName
actualName(name, SurveyName) == IF Truthy(name) THEN name ELSE SurveyName

NameMismatch_OnlyWhenUnnamed(actual, confirmName) == ~Truthy(actual)

\* block-tools.ts line 319: actualName !== args.confirmName
NameMismatch(actual, confirmName) == actual # confirmName

\* server.ts line 108 and survey-api.ts lines 14-16: the request line
SurveyRequest(method, surveyId) == [method |-> method, surveyId |-> surveyId]

\* toolError(text): the error result of a tool
toolError(message) == [isError |-> TRUE, kind |-> "error", message |-> message]

\* toolSuccess(data): the result of a tool that succeeded
toolSuccess(message) == [isError |-> FALSE, kind |-> "success", message |-> message]

\* withErrorHandling: an error thrown by the handler becomes an error result
withErrorHandling(message) == toolError(<<"Error in delete_survey", message>>)

\* block-tools.ts line 316: the handler sends the GET of the survey
DeleteSurveyCalled ==
    /\ ex.pc = "start"
    /\ ex' = [ex EXCEPT !.pc = "getSurvey",
                        !.sent = Append(@, SurveyRequest("GET", ex.surveyId))]
    /\ UNCHANGED <<now, limiterVars, http>>

\* lines 316-325: getSurvey returned; on a mismatch the tool returns, else it
\* sends the DELETE
GetSurveyReturns(name, SurveyName) ==
    /\ ex.pc = "getSurvey"
    /\ LET e == [ex EXCEPT !.name = name, !.SurveyName = SurveyName]
           actual == actualName(name, SurveyName)
       IN ex' = IF NameMismatch(actual, ex.confirmName)
                THEN [e EXCEPT !.pc = "done",
                         !.result = toolError(<<"Survey name mismatch", actual,
                                                ex.confirmName>>)]
                ELSE [e EXCEPT !.pc = "deleteSurvey",
                         !.sent = Append(@, SurveyRequest("DELETE", ex.surveyId))]
    /\ UNCHANGED <<now, limiterVars, http>>

\* line 316: getSurvey raised
GetSurveyRaises(message) ==
    /\ ex.pc = "getSurvey"
    /\ ex' = [ex EXCEPT !.pc = "done", !.result = withErrorHandling(message)]
    /\ UNCHANGED <<now, limiterVars, http>>

\* lines 325-331: deleteSurvey returned
DeleteSurveyReturns ==
    /\ ex.pc = "deleteSurvey"
    /\ ex' = [ex EXCEPT !.pc = "done",
                 !.result = toolSuccess(<<"deleted successfully", ex.confirmName>>)]
    /\ UNCHANGED <<now, limiterVars, http>>

\* line 325: deleteSurvey raised
DeleteSurveyRaises(message) ==
    /\ ex.pc = "deleteSurvey"
    /\ ex' = [ex EXCEPT !.pc = "done", !.result = withErrorHandling(message)]
    /\ UNCHANGED <<now, limiterVars, http>>

GetSurveyAnswers ==
    \E name \in NameFields, SurveyName \in NameFields : GetSurveyReturns(name, SurveyName)
DeleteRaises ==
    \E message \in Errors : GetSurveyRaises(message) \/ DeleteSurveyRaises(message)

NextDelete ==
    \/ DeleteSurveyCalled
    \/ GetSurveyAnswers
    \/ DeleteSurveyReturns
    \/ DeleteRaises

\* one invocation of delete_survey
SpecDelete == InitDelete /\ [][NextDelete]_vars

----------------------------------------------------------------------------
(* The add_embedded_data tool; `ex` holds the state of the invocation *)

\* a flow element; FlowID n stands for "FL_n"
Block(n) == [FlowID |-> n, Type |-> "Block", EmbeddedData |-> <<>>]

\* flow.Flow of the answer to the GET
FlowLists == {<<>>, <<Block(1)>>, <<Block(1), Block(2)>>, <<Block(3), Block(1)>>}

\* flow.Properties of the answer to the GET: absent, or an object whose
\* Count is absent (-1) or a number
PropertiesOf ==
    {[present |-> FALSE, Count |-> -1]}
    \cup {[present |-> TRUE, Count |-> c] : c \in {-1, 0, 2, 7}}

\* args.fields, one or two fields
FieldLists ==
    { <<[name |-> "cond", value |-> "undefined", type |-> "undefined"]>>,
      <<[name |-> "cond", value |-> "", type |-> "Custom"],
        [name |-> "source", value |-> "web", type |-> "Recipient"]>> }

NoFlow == [Flow |-> <<>>, Properties |-> [present |-> FALSE, Count |-> -1]]

InitFlow ==
    /\ now = 0
    /\ enabled = TRUE
    /\ maxRequests = 1
    /\ requests = <<>>
    /\ pc = [p \in Procs |-> "idle"]
    /\ callNow = [p \in Procs |-> 0]
    /\ wakeAt = [p \in Procs |-> 0]
    /\ admitted = <<>>
    /\ http = [p \in Procs |-> NoCall]
    /\ \E surveyId \in SurveyIds, fields \in FieldLists :
          ex = [tool |-> "add_embedded_data", surveyId |-> surveyId,
                fields |-> fields, pc |-> "start",
                currentFlow |-> NoFlow, gotFlow |-> FALSE,
                sent |-> <<>>, result |-> NoToolResult]

\* flow-tools.ts line 68: (flow.Properties?.Count || flow.Flow.length) + 1
nextFlowNum(flow) ==
    (IF flow.Properties.present /\ flow.Properties.Count > 0
     THEN flow.Properties.Count
     ELSE Len(flow.Flow)) + 1

\* lines 74-82: one entry of edElement.EmbeddedData
EmbeddedField(f) ==
    [Description |-> f.name,
     Type |-> IF Truthy(f.type) THEN f.type ELSE "Custom",
     Field |-> f.name,
     Value |-> IF Truthy(f.value) THEN f.value ELSE ""]

\* lines 71-83
edElement(n, fields) ==
    [FlowID |-> n, Type |-> "EmbeddedData",
     EmbeddedData |-> [i \in DOMAIN fields |-> EmbeddedField(fields[i])]]

\* line 86: flow.Flow.unshift(edElement)
unshift(list, element) == <<element>> \o list

\* contact-api.ts lines 131-140: the request getFlow / updateFlow sends
FlowRequest(method, surveyId, body) ==
    [method |-> method, surveyId |-> surveyId, body |-> body]

\* line 64: the handler sends the GET of the flow
AddEmbeddedDataCalled ==
    /\ ex.pc = "start"
    /\ ex' = [ex EXCEPT !.pc = "getFlow",
                        !.sent = Append(@, FlowRequest("GET", ex.surveyId, NoFlow))]
    /\ UNCHANGED <<now, limiterVars, http>>

\* lines 64-90: getFlow returned; the element is built and inserted, the
\* count is written and the PUT is sent.  Line 87 assigns to
\* flow.Properties.Count: without a Properties object that is a TypeError,
\* which withErrorHandling turns into an error result
GetFlowReturns(flow) ==
    /\ ex.pc = "getFlow"
    /\ LET e == [ex EXCEPT !.currentFlow = flow, !.gotFlow = TRUE]
           n == nextFlowNum(flow)
           updated == [Flow |-> unshift(flow.Flow, edElement(n, ex.fields)),
                       Properties |-> [present |-> TRUE, Count |-> n]]
       IN ex' = IF ~flow.Properties.present
                THEN [e EXCEPT !.pc = "done",
                         !.result = toolError(<<"Error in add_embedded_data",
                                                "TypeError">>)]
                ELSE [e EXCEPT !.pc = "updateFlow",
                         !.sent = Append(@, FlowRequest("PUT", ex.surveyId, updated))]
    /\ UNCHANGED <<now, limiterVars, http>>

\* line 64: getFlow raised
GetFlowRaises(message) ==
    /\ ex.pc = "getFlow"
    /\ ex' = [ex EXCEPT !.pc = "done",
                 !.result = toolError(<<"Error in add_embedded_data", message>>)]
    /\ UNCHANGED <<now, limiterVars, http>>

\* lines 90-104: updateFlow returned
UpdateFlowReturns ==
    /\ ex.pc = "updateFlow"
    /\ ex' = [ex EXCEPT !.pc = "done",
                 !.result = toolSuccess(<<"embedded data field(s) added">>)]
    /\ UNCHANGED <<now, limiterVars, http>>

\* line 90: updateFlow raised
UpdateFlowRaises(message) ==
    /\ ex.pc = "updateFlow"
    /\ ex' = [ex EXCEPT !.pc = "done",
                 !.result = toolError(<<"Error in add_embedded_data", message>>)]
    /\ UNCHANGED <<now, limiterVars, http>>

GetFlowAnswers ==
    \E list \in FlowLists, properties \in PropertiesOf :
        GetFlowReturns([Flow |-> list, Properties |-> properties])
FlowRaises ==
    \E message \in Errors : GetFlowRaises(message) \/ UpdateFlowRaises(message)

NextFlow ==
    \/ AddEmbeddedDataCalled
    \/ GetFlowAnswers
    \/ UpdateFlowReturns
    \/ FlowRaises

\* one invocation of add_embedded_data
SpecFlow == InitFlow /\ [][NextFlow]_vars

----------------------------------------------------------------------------
(* Properties of the rate limiter *)

\* admission instants inside the interval [t, t + windowMs)
AdmittedIn(t) ==
    {i \in DOMAIN admitted : admitted[i].at >= t /\ admitted[i].at < t + windowMs}

\* no interval of windowMs holds more than maxRequests admission instants
WindowBound ==
    \A i \in DOMAIN admitted : Cardinality(AdmittedIn(admitted[i].at)) <= maxRequests

\* C1: with the limiter enabled and callers one at a time, no interval of
\* 60,000 ms contains more than maxRequests admission instants (instants at
\* which a checkLimit() call returned).
C1_SequentialWindowBound == enabled => WindowBound

\* calls i and j were both suspended in the wait of line 29 at some instant
Overlap(i, j) ==
    /\ admitted[i].suspended /\ admitted[j].suspended
    /\ admitted[i].called < admitted[j].at
    /\ admitted[j].called < admitted[i].at

\* C2: however many callers are suspended in the wait at once, the callers
\* that waited together are admitted as if one after the other: no interval
\* of 60,000 ms contains more than maxRequests of their admission instants.
C2_ConcurrentWindowBound ==
    enabled =>
        \A i \in DOMAIN admitted :
            Cardinality({j \in AdmittedIn(admitted[i].at) : Overlap(i, j)}) <= maxRequests

\* C3: with enabled = false no checkLimit() call suspends and the stored
\* timestamp list stays as constructed, whatever requestsPerMinute is.
C3_DisabledIsNoOp ==
    ~enabled =>
        /\ requests = <<>>
        /\ InFlight = {}
        /\ \A i \in DOMAIN admitted : ~admitted[i].suspended /\ admitted[i].at = admitted[i].called

\* a disabled limiter has returned from more calls than an enabled one with
\* the same requestsPerMinute would have admitted at once
C3_Witness == ~enabled /\ maxRequests = 1 /\ Len(admitted) >= 2

----------------------------------------------------------------------------
(* Properties of the client *)

Pending(h) == h.stage \in {"fetch", "body"}

Carries(message, text) == \E i \in DOMAIN message : message[i] = text

\* C4: every outbound request (makeRequest and the export file download) is
\* issued only after a rate-limiter admission obtained for that request.
C4_AdmissionBeforeRequest ==
    \A p \in Procs : http[p].fetches <= http[p].admissions

\* C5: no HTTP call of the client (download included) stays pending longer
\* than the configured timeout after it was issued.
C5_HardDeadline ==
    \A p \in Procs : Pending(http[p]) => now <= http[p].issuedAt + timeout

\* C6: a makeRequest call whose complete response (head and body) was not
\* there within the timeout rejects with 'Request timeout' and with nothing
\* else: it neither resolves nor rejects with another error.
C6_LateResponseIsTimeout ==
    \A p \in Procs :
        (/\ http[p].op = "makeRequest"
         /\ http[p].stage = "settled"
         /\ http[p].settledAt > http[p].issuedAt + timeout)
        => (http[p].kind = "error" /\ http[p].message = <<"Request timeout">>)

\* a non-2xx response was received and the call settled on it
NonOkReceived(h) ==
    /\ h.stage = "settled"
    /\ h.status # ""
    /\ ~Ok(h.status)
    /\ h.message # <<"fetch failed">>

\* C7: every non-2xx response received through makeRequest or through the
\* download produces an error whose message carries the status code, the
\* status text and the body text of the response.
C7_NonOkCarriesResponse ==
    \A p \in Procs :
        NonOkReceived(http[p]) =>
            /\ http[p].kind = "error"
            /\ Carries(http[p].message, http[p].status)
            /\ Carries(http[p].message, http[p].statusText)
            /\ Carries(http[p].message, http[p].body)

\* C8: one makeRequest invocation performs exactly one admission and issues
\* exactly one network request, whatever its outcome.
C8_OneRequestOneAdmission ==
    \A p \in Procs :
        http[p].op = "makeRequest" =>
            /\ http[p].fetches <= 1
            /\ http[p].admissions <= 1
            /\ http[p].stage \in {"fetch", "body", "settled"} =>
                  (http[p].fetches = 1 /\ http[p].admissions = 1)

\* a makeRequest that waited for its admission has timed out, and another
\* one has failed on a non-2xx response
C8_Witness ==
    \E p, q \in Procs :
        /\ http[p].op = "makeRequest" /\ http[p].stage = "settled"
        /\ http[p].message = <<"Request timeout">>
        /\ \E i \in DOMAIN admitted : admitted[i].suspended
        /\ http[q].op = "makeRequest" /\ http[q].stage = "settled"
        /\ http[q].kind = "error" /\ ~Ok(http[q].status) /\ http[q].status # ""

\* C17: every checkLimit() call eventually returns, for every interleaving
\* of concurrent callers, provided the timers fire: a suspended call is
\* resumed and returns; the limiter has no step that throws.
C17_EveryCallReturns ==
    \A p \in Procs : (pc[p] = "waiting") ~> (pc[p] = "idle")

\* two calls were suspended at the same time and both have returned
C17_Witness ==
    /\ enabled
    /\ InFlight = {}
    /\ \E i, j \in DOMAIN admitted :
          /\ i < j
          /\ admitted[i].suspended /\ admitted[j].suspended
          /\ admitted[j].called < admitted[i].at

\* some call returned in the 60,000 ms that end at instant t (t included)
AdmissionWithinWindowBefore(t) ==
    \E j \in DOMAIN admitted : admitted[j].at <= t /\ t - admitted[j].at < 60000

\* C18: with the limiter enabled, a checkLimit() call made at least 60,000 ms
\* after the most recent admission instant, or on a fresh limiter, returns
\* without suspending, whatever calls and waits came before: a call that
\* suspends was made less than 60,000 ms after some admission instant.
C18_NoWaitAfterIdleWindow ==
    enabled =>
        /\ \A p \in InFlight : AdmissionWithinWindowBefore(callNow[p])
        /\ \A i \in DOMAIN admitted :
              admitted[i].suspended =>
                 \E j \in 1..(i - 1) :
                    /\ admitted[j].at <= admitted[i].called
                    /\ admitted[i].called - admitted[j].at < 60000

\* a call waited, and a later call made exactly 60,000 ms after that call's
\* return (the most recent admission) returned at once
C18_Witness ==
    /\ enabled
    /\ \E i \in DOMAIN admitted :
          /\ i > 1
          /\ admitted[i - 1].suspended
          /\ admitted[i].called = admitted[i - 1].at + 60000
          /\ ~admitted[i].suspended
          /\ admitted[i].at = admitted[i].called

\* C20: when a checkLimit() call had to wait, the timestamp it appends to
\* the window is the instant at which the wait ended, not the instant at
\* which the call was made.
C20_StampIsNowAfterWait ==
    \A i \in DOMAIN admitted :
        admitted[i].suspended =>
            /\ admitted[i].stamp = admitted[i].at
            /\ admitted[i].stamp # admitted[i].called

----------------------------------------------------------------------------
(* Properties of the export tools *)

\* the invocation asked to wait and no call of the primary attempt raised
WaitingNoRaise == ex.waitForCompletion = "true" /\ ex.errorMessage = ""

\* C9: in a waiting export where no call raises and percentComplete = 100 is
\* first reported by the k-th status check (1 <= k <= 30), the handler makes
\* exactly k status checks, then one download with the fileId of that k-th
\* check, makes no status check after it and returns status 'completed'.
C9_CompletesAtFirstHundred ==
    (WaitingNoRaise /\ ex.hundredAt >= 1) =>
        /\ ex.hundredAt <= maxAttempts
        /\ ex.checks = ex.hundredAt
        /\ ex.downloads <= 1
        /\ ex.downloads = 1 =>
              (ex.checksAtDownload = ex.hundredAt /\ ex.downloadedFileId = ex.hundredFileId)
        /\ ex.pc = "done" =>
              /\ ex.starts = 1
              /\ ex.downloads = 1
              /\ ex.fallbackChecks = 0
              /\ ex.result.status = "completed"

\* the 30th status check is the first to report 100 and the export completed
C9_Witness ==
    /\ ex.pc = "done"
    /\ WaitingNoRaise
    /\ ex.hundredAt = maxAttempts
    /\ ex.tool = "export_responses_filtered"
    /\ ex.result.status = "completed"

\* C10: in a waiting export where no call raises and none of the first 30
\* status checks reports 100, the handler makes exactly 30 status checks, no
\* download and no fallback start, and returns the non-error status
\* 'timeout' with the job's progressId.
C10_TimeoutAfterThirtyChecks ==
    /\ (WaitingNoRaise /\ ex.hundredAt = 0) =>
          /\ ex.checks <= maxAttempts
          /\ ex.downloads = 0
          /\ ex.starts <= 1
    /\ (ex.pc = "done" /\ WaitingNoRaise /\ ex.hundredAt = 0) =>
          /\ ex.checks = maxAttempts
          /\ ex.starts = 1
          /\ ex.startFormats = <<FormatOrDefault(ex.format)>>
          /\ ex.fallbackChecks = 0
          /\ ex.result.status = "timeout"
          /\ ~ex.result.isError
          /\ ex.result.progressId = ex.progressId
          /\ ex.progressId = "ES_1"

\* thirty status checks went by without 100 and the export returned
C10_Witness ==
    /\ ex.pc = "done"
    /\ WaitingNoRaise
    /\ ex.hundredAt = 0
    /\ ex.checks = maxAttempts
    /\ ex.tool = "export_responses_filtered"

\* the start call of the primary attempt returned and the caller asked not
\* to wait
FireAndForgetStarted ==
    ex.waitForCompletion = "false" /\ ex.starts >= 1 /\ ex.errorMessage = ""

\* C11: when the caller passes waitForCompletion = false and the start call
\* succeeds, the handler returns status 'started' with the progressId right
\* after its single start call: it sleeps for no poll interval, makes no
\* status check and no download.
C11_FireAndForgetReturnsStarted ==
    FireAndForgetStarted =>
        /\ ex.pc = "done"
        /\ ex.result.status = "started"
        /\ ~ex.result.isError
        /\ ex.result.progressId = ex.progressId
        /\ ex.progressId = NewProgressId(0)
        /\ ex.starts = 1
        /\ ex.checks = 0
        /\ ex.fallbackChecks = 0
        /\ ex.downloads = 0
        /\ now = 0

\* a fire-and-forget invocation of the filtered tool returned 'started'
C11_Witness ==
    /\ FireAndForgetStarted
    /\ ex.pc = "done"
    /\ ex.tool = "export_responses_filtered"
    /\ ex.result.status = "started"

\* C12: waitForCompletion defaults to true: an invocation of either export
\* tool that omits waitForCompletion enters the polling loop after the start
\* call instead of returning 'started'.
C12_OmittedFlagWaits ==
    (ex.waitForCompletion = "undefined" /\ ex.starts >= 1 /\ ex.errorMessage = "") =>
        /\ ex.result.status # "started"
        /\ ex.pc = "done" => ex.checks >= 1

\* a call of the primary attempt raised
PrimaryRaised == ex.errorMessage # ""

\* the keys of a filters object
KeysOf(filters) == {kv[1] : kv \in filters}

\* the filters object holds, for key k, the value v and no other
Sends(filters, k, v) == \A kv \in filters : kv[1] = k <=> kv = <<k, v>>

\* C13: if the primary start call, a primary status check or the primary
\* download raises, the handler starts exactly one fallback export, for the
\* same survey, with format 'csv' and with filters that are exactly the
\* caller's startDate, endDate and completion filterType (when given);
\* questionIds, embeddedDataIds, includeDisplayOrder and useLabels are never
\* in the fallback request.
C13_OneCsvFallbackWithDateAndCompletionFilters ==
    /\ ex.starts = Len(ex.startRequests)
    /\ ex.starts <= 2
    /\ ~PrimaryRaised => ex.starts <= 1
    /\ (PrimaryRaised /\ ex.pc # "fbStart") =>
          /\ ex.starts = 2
          /\ LET fallback == ex.startRequests[2] IN
                /\ fallback.surveyId = ex.surveyId
                /\ fallback.surveyId = ex.startRequests[1].surveyId
                /\ fallback.format = "csv"
                /\ KeysOf(fallback.filters) \subseteq {"startDate", "endDate", "filterType"}
                /\ \A k \in {"startDate", "endDate"} :
                      IF ex.args[k] \in {"undefined", ""}
                      THEN k \notin KeysOf(fallback.filters)
                      ELSE <<k, ex.args[k]>> \in fallback.filters
                           /\ Sends(fallback.filters, k, ex.args[k])
                /\ ex.args["filterType"] = "complete" =>
                      <<"filterType", "finished">> \in fallback.filters
                /\ ex.args["filterType"] = "incomplete" =>
                      <<"filterType", "unfinished">> \in fallback.filters
                /\ ex.args["filterType"] \in {"undefined", "all"} =>
                      "filterType" \notin KeysOf(fallback.filters)

\* a status check of a filtered export with every filter argument given
\* raised and the fallback request went out
C13_Witness ==
    /\ PrimaryRaised
    /\ ex.checks >= 1
    /\ ex.starts = 2
    /\ ex.tool = "export_responses_filtered"
    /\ ex.args["questionIds"] = "QID1"
    /\ ex.args["filterType"] = "complete"
    /\ <<"questionIds", "QID1">> \in ex.startRequests[1].filters
    /\ ex.startRequests[2].filters =
          {<<"startDate", "2024-01-01">>, <<"endDate", "2024-12-31">>,
           <<"filterType", "finished">>}

\* the fallback start request went out and the invocation returned
FallbackEnded == ex.pc = "done" /\ ex.starts = 2

\* C14: once a fallback export has been started the result is determined by
\* the fallback alone: 'completed_via_fallback' with the original error
\* message if a fallback status check reported 100 and the artifact was
\* retrieved and saved; 'fallback_timeout' with the original error message
\* and the fallback progressId if 30 fallback checks went by without 100; an
\* isError result holding the original and the fallback error message if a
\* fallback step raised.
C14_FallbackDeterminesResult ==
    /\ ex.fallbackChecks <= maxAttempts
    /\ FallbackEnded =>
          /\ PrimaryRaised
          /\ ex.result.originalError = ex.errorMessage
          /\ ~ex.result.inline
          /\ IF ex.result.isError
             THEN /\ ex.result.fallbackError \in Errors \cup SaveErrors
                  /\ ex.result.status = ""
                  /\ ~ex.result.savedToFile
             ELSE IF ex.fileId # ""
             THEN /\ ex.result.status = "completed_via_fallback"
                  /\ ex.fallbackChecks >= 1
                  /\ ex.downloadedFileId = ex.fileId
                  /\ ex.result.savedToFile
                  /\ ex.result.fileSize = ex.fileSizeBytes
                  /\ ex.result.fallbackError = ""
             ELSE /\ ex.result.status = "fallback_timeout"
                  /\ ex.fallbackChecks = maxAttempts
                  /\ ex.result.progressId = ex.fallbackProgressId
                  /\ ex.fallbackProgressId = NewProgressId(1)
                  /\ ex.result.fallbackError = ""
                  /\ ~ex.result.savedToFile

\* the primary download raised and a later fallback status check raised with
\* a different message
C14_Witness ==
    /\ FallbackEnded
    /\ ex.downloads = 1
    /\ ex.fallbackChecks >= 2
    /\ ex.result.isError
    /\ ex.result.originalError = "Request timeout"
    /\ ex.result.fallbackError = "Qualtrics API error: 400 Bad Request - {}"

\* the invocation returned a result made from a retrieved artifact
ArtifactReturned == ex.pc = "done" /\ ex.result.fileSize >= 0

\* C15: on every path that retrieves an artifact (primary or fallback, with
\* or without saveToFile) an artifact of more than 102,400 bytes is saved to
\* a file and never returned inline; the boundary is exclusive: the primary
\* path without saveToFile returns 102,400 bytes inline and auto-saves
\* 102,401 bytes.
C15_LargeArtifactIsSaved ==
    ArtifactReturned =>
        /\ ex.result.fileSize = ex.fileSizeBytes
        /\ ex.result.inline # ex.result.savedToFile
        /\ ex.result.fileSize > 102400 => (ex.result.savedToFile /\ ~ex.result.inline)
        /\ (~PrimaryRaised /\ ex.saveToFile = "") =>
              /\ ex.result.fileSize = 102400 =>
                    (ex.result.inline /\ ~ex.result.wasAutoSaved)
              /\ ex.result.fileSize = 102401 =>
                    (ex.result.savedToFile /\ ex.result.wasAutoSaved)
        /\ (~PrimaryRaised /\ ex.saveToFile # "") =>
              (ex.result.savedToFile /\ ~ex.result.wasAutoSaved)
        /\ PrimaryRaised => ex.result.savedToFile

\* the primary path, without saveToFile, returned 102,400 bytes of JSON inline
C15_WitnessBoundary ==
    /\ ArtifactReturned
    /\ ~PrimaryRaised
    /\ ex.saveToFile = ""
    /\ ex.format = "json"
    /\ ex.result.fileSize = 102400
    /\ ex.result.inline

\* what the caller sees of a result: its status, or 'failed' for the isError
\* result, which has no status property
CallerVisibleStatus(result) == IF result.isError THEN "failed" ELSE result.status

EnumeratedStatuses ==
    {"started", "in_progress", "completed", "timeout",
     "completed_via_fallback", "fallback_timeout", "failed"}

\* C16: every invocation of export_responses or export_responses_filtered
\* ends with exactly one of the statuses started, in_progress, completed,
\* timeout, completed_via_fallback, fallback_timeout, failed (the isError
\* result), and the last three are returned only if a call of the primary
\* attempt raised.
C16_EndsWithEnumeratedStatus ==
    /\ ex.pc # "done" => ex.result = NoResult
    /\ ex.pc = "done" =>
          /\ CallerVisibleStatus(ex.result) \in EnumeratedStatuses
          /\ ex.result.isError => ex.result.status = ""
          /\ CallerVisibleStatus(ex.result)
                \in {"completed_via_fallback", "fallback_timeout", "failed"}
                => PrimaryRaised

\* export_responses ended with the isError result after both attempts raised
C16_Witness ==
    /\ ex.pc = "done"
    /\ ex.tool = "export_responses"
    /\ CallerVisibleStatus(ex.result) = "failed"
    /\ ex.starts = 2
    /\ ex.fallbackChecks = 0

----------------------------------------------------------------------------
(* Properties of delete_survey *)

DeleteRequests == {i \in DOMAIN ex.sent : ex.sent[i].method = "DELETE"}

\* confirmName is not the name the GET returned (result.name, or
\* result.SurveyName when there is no result.name)
ConfirmNameDiffers ==
    ex.confirmName # (IF ex.name \in {"undefined", ""} THEN ex.SurveyName ELSE ex.name)

\* C19: delete_survey sends the DELETE of a survey only if confirmName equals
\* the survey's name as returned by the preceding GET of that survey; on a
\* mismatch the tool returns an error result and the invocation never sends
\* a DELETE.
C19_DeleteOnlyAfterNameMatch ==
    /\ \A i \in DeleteRequests :
          /\ i = 2
          /\ ex.sent[1] = [method |-> "GET", surveyId |-> ex.surveyId]
          /\ ex.sent[i].surveyId = ex.surveyId
          /\ ex.confirmName \in {ex.name, ex.SurveyName}
          /\ ex.name \notin {"undefined", ""} => ex.confirmName = ex.name
    /\ (ex.pc \in {"deleteSurvey", "done"} /\ ConfirmNameDiffers) =>
          /\ ex.pc = "done"
          /\ ex.result.isError
          /\ DeleteRequests = {}

\* the GET returned a name other than confirmName and the tool returned
C19_Witness ==
    /\ ex.pc = "done"
    /\ ex.name = "Alpha"
    /\ ex.SurveyName = "Beta"
    /\ ex.confirmName = "Beta"
    /\ ex.result.isError
    /\ DeleteRequests = {}

----------------------------------------------------------------------------
(* Further properties of the rate limiter *)

\* the smallest element of a non-empty sequence of instants
Oldest(s) == CHOOSE m \in {s[i] : i \in DOMAIN s} : \A i \in DOMAIN s : m <= s[i]

\* this step is a checkLimit() call of caller p that suspends
Suspends(p) == pc[p] = "idle" /\ pc'[p] = "waiting"

\* this step is a checkLimit() call that returns without suspending
ReturnsAtOnce ==
    /\ Len(admitted') = Len(admitted) + 1
    /\ ~admitted'[Len(admitted')].suspended

\* C21: after the prune, a call that finds fewer than maxRequests stored
\* timestamps appends the current time and returns without suspending;
\* otherwise it suspends for exactly 60,000 - (now - oldest stored
\* timestamp) + 100 ms, which lies in (100, 60,100].
C21_AdmissionDecision ==
    [][enabled =>
         /\ ReturnsAtOnce =>
               /\ Len(requests') - 1 < maxRequests
               /\ requests'[Len(requests')] = now'
               /\ admitted'[Len(admitted')].at = now'
               /\ admitted'[Len(admitted')].called = now'
         /\ \A p \in Procs : Suspends(p) =>
               /\ Len(requests') >= maxRequests
               /\ admitted' = admitted
               /\ wakeAt'[p] - now' = 60000 - (now' - Oldest(requests')) + 100
               /\ wakeAt'[p] - now' > 100
               /\ wakeAt'[p] - now' <= 60100]_vars

\* a call made 59,999 ms after the only stored timestamp waits 101 ms
C21_Witness ==
    /\ enabled
    /\ \E p \in InFlight : wakeAt[p] - callNow[p] = 101 /\ now = callNow[p]

\* this step is a checkLimit() call that reaches the comparison of line 24
Decides == ReturnsAtOnce \/ \E p \in Procs : Suspends(p)

\* C22: at every admission decision (right after the prune) every stored
\* timestamp t has now - t < 60,000 ms: stale entries are pruned before the
\* count is compared with maxRequests.
C22_PrunedBeforeDecision ==
    [][(enabled /\ Decides) =>
          LET compared == IF ReturnsAtOnce
                          THEN SubSeq(requests', 1, Len(requests') - 1)
                          ELSE requests'
          IN \A i \in DOMAIN compared :
                now' - compared[i] < 60000 /\ compared[i] <= now']_vars

\* the second call came 60,000 ms after the first: the prune removed the
\* first timestamp although maxRequests is 2
C22_Witness ==
    /\ enabled
    /\ maxRequests = 2
    /\ Len(admitted) = 2
    /\ admitted[2].called = admitted[1].at + 60000
    /\ requests = <<admitted[2].stamp>>

----------------------------------------------------------------------------
(* Properties of add_embedded_data *)

\* Properties.Count of the flow the GET returned, or the number of its
\* top-level elements when Count is absent or 0
CountOrLength(flow) ==
    IF flow.Properties.present /\ flow.Properties.Count \notin {-1, 0}
    THEN flow.Properties.Count
    ELSE Len(flow.Flow)

\* C25: add_embedded_data inserts exactly one new EmbeddedData element at
\* index 0 of the flow the GET returned, keeps every other element in its
\* order, gives it FlowID FL_(c+1), where c is Properties.Count or, when
\* Count is absent or 0, the number of top-level elements, and writes
\* Properties.Count = c+1 in the flow it PUTs back.
C25_EmbeddedDataInsertedFirst ==
    (ex.gotFlow /\ ex.pc \in {"updateFlow", "done"}) =>
        /\ Len(ex.sent) = 2
        /\ ex.sent[2].method = "PUT"
        /\ ex.sent[2].surveyId = ex.surveyId
        /\ LET old == ex.currentFlow.Flow
               put == ex.sent[2].body
               c == CountOrLength(ex.currentFlow)
           IN /\ Len(put.Flow) = Len(old) + 1
              /\ put.Flow[1].Type = "EmbeddedData"
              /\ put.Flow[1].FlowID = c + 1
              /\ Len(put.Flow[1].EmbeddedData) = Len(ex.fields)
              /\ SubSeq(put.Flow, 2, Len(put.Flow)) = old
              /\ put.Properties.present
              /\ put.Properties.Count = c + 1

----------------------------------------------------------------------------
(* Further properties of the client *)

\* C27: in makeRequest the deadline timer is armed only after the
\* rate-limiter admission returned, at that instant, so the wait for
\* admission does not count against the timeout; and the timer is cleared
\* on every exit path (success, non-2xx, abort, transport error): a settled
\* call has no armed timer, so no abort fires after it.
C27_TimerArmedAfterAdmissionAndCleared ==
    \A p \in Procs :
        http[p].op = "makeRequest" =>
            /\ http[p].stage = "admission" =>
                  (pc[p] = "waiting" /\ http[p].timerDue = -1 /\ http[p].fetches = 0)
            /\ http[p].timerDue >= 0 =>
                  /\ http[p].stage = "fetch"
                  /\ pc[p] = "idle"
                  /\ http[p].admissions = 1
                  /\ http[p].timerDue = http[p].issuedAt + 30000
                  /\ \E i \in DOMAIN admitted : admitted[i].at = http[p].issuedAt
                  /\ wakeAt[p] > callNow[p] =>      \* the admission had to wait
                        http[p].timerDue = wakeAt[p] + 30000
            /\ http[p].stage = "settled" => http[p].timerDue = -1

\* a makeRequest that waited 60,100 ms for its admission has its timer due
\* 30,000 ms after the admission; another one has settled on a transport
\* error
C27_Witness ==
    \E p, q \in Procs :
        /\ http[p].op = "makeRequest"
        /\ http[p].stage = "fetch"
        /\ http[p].issuedAt = 60100
        /\ http[p].timerDue = 90100
        /\ http[q].op = "makeRequest"
        /\ http[q].stage = "settled"
        /\ http[q].message = <<"fetch failed">>

----------------------------------------------------------------------------
(* Further properties of the export tools *)

\* what one invocation may send
WithinExportBounds ==
    /\ ex.starts <= 2
    /\ ex.checks <= 30
    /\ ex.fallbackChecks <= 30
    /\ ex.checks + ex.fallbackChecks <= 60
    /\ ex.downloads <= 2
    /\ ex.starts = 2 => PrimaryRaised

\* an upper bound on the steps one polling attempt still has to take when it
\* is at position `at` of its loop with `attempts` checks behind it
AttemptStepsLeft(at, attempts) ==
    CASE at = "start" -> 63
      [] at = "sleep" -> 62 - 2 * attempts
      [] at = "check" -> 61 - 2 * attempts
      [] at = "download" -> 2
      [] at = "save" -> 1

\* an upper bound on the steps the invocation still has to take
StepsLeft ==
    CASE ex.pc = "done" -> 0
      [] ex.pc = "fbStart" -> AttemptStepsLeft("start", ex.attempts)
      [] ex.pc = "fbSleep" -> AttemptStepsLeft("sleep", ex.attempts)
      [] ex.pc = "fbCheck" -> AttemptStepsLeft("check", ex.attempts)
      [] ex.pc = "fbDownload" -> AttemptStepsLeft("download", ex.attempts)
      [] ex.pc = "fbSave" -> AttemptStepsLeft("save", ex.attempts)
      [] OTHER -> 64 + AttemptStepsLeft(ex.pc, ex.attempts)

\* C23: every export invocation is bounded: at most one fallback export, so
\* at most 2 start calls, at most 60 status checks and at most 2 downloads
\* in all; and, provided every HTTP call returns or fails, it ends with a
\* result: every step brings the invocation nearer to its end (StepsLeft
\* decreases and is never negative), an invocation that has not ended can
\* take a step as soon as its pending call returns or fails, and it ends
\* with a result.
C23_BoundedAndTerminates ==
    /\ [](/\ WithinExportBounds
          /\ StepsLeft >= 0
          /\ ex.pc # "done" => ENABLED <<NextExport>>_vars
          /\ ex.pc = "done" <=> ex.result # NoResult)
    /\ [][StepsLeft' < StepsLeft]_vars

\* an invocation that used the whole budget: 2 starts, 60 checks, 2 downloads
C23_Witness ==
    /\ ex.pc = "done"
    /\ ex.starts = 2
    /\ ex.checks = 30
    /\ ex.fallbackChecks = 30
    /\ ex.downloads = 2

\* this step makes a status check (primary or fallback), returning or raising
ChecksStatus ==
    ex'.checks = ex.checks + 1 \/ ex'.fallbackChecks = ex.fallbackChecks + 1

\* C24: in the primary and in the fallback loop a suspension of 10,000 ms
\* precedes every status check: the first check of a job comes no earlier
\* than 10,000 ms after its start call returned, and two consecutive checks
\* of one job are at least 10,000 ms apart.
C24_TenSecondsBeforeEveryCheck ==
    [][ChecksStatus =>
          /\ ex.polledAt >= 0
          /\ now' - ex.polledAt >= 10000]_vars

\* the fallback job has been checked twice, 10,000 ms apart, after a primary
\* job that was checked as well
C24_Witness ==
    /\ ex.fallbackChecks = 2
    /\ ex.checks >= 1
    /\ ex.pc = "fbSleep"
    /\ ex.polledAt = now
    /\ now = 10000 * (ex.checks + ex.fallbackChecks)

\* a status check of the primary job reported the remote status 'failed'
\* with percentComplete other than 100, and no call raised
RemoteFailureSeen == ex.failedSeen /\ ~PrimaryRaised

\* C28: the poller looks only at percentComplete: a status check with remote
\* status 'failed' and percentComplete other than 100 counts as 'still
\* running'; it never starts the fallback, and a job that never reports 100
\* ends as 'timeout' after 30 checks.
C28_RemoteFailureIsStillRunning ==
    RemoteFailureSeen =>
        /\ ex.starts = 1
        /\ ex.fallbackChecks = 0
        /\ ex.pc \in {"sleep", "check", "download", "save", "done"}
        /\ (ex.pc = "done" /\ ex.hundredAt = 0) =>
              /\ ex.result.status = "timeout"
              /\ ~ex.result.isError
              /\ ex.checks = 30
              /\ ex.downloads = 0
        /\ (ex.pc = "done" /\ ex.hundredAt > 0) => ex.result.status = "completed"

\* the first status check reported 'failed' and the export ended as
\* 'timeout' after 30 checks
C28_Witness ==
    /\ RemoteFailureSeen
    /\ ex.pc = "done"
    /\ ex.hundredAt = 0
    /\ ex.result.status = "timeout"
    /\ ex.tool = "export_responses"

\* the primary attempt raised after its artifact had been downloaded:
\* JSON.parse rejected the payload, or saveExportToFile could not write it
RaisedAfterDownload == ex.errorMessage \in ParseErrors \cup SaveErrors

\* C29: an error raised after the primary artifact was retrieved (the save
\* in saveExportToFile failing, or JSON decoding of the payload failing) is
\* handled like an API error: the retrieved artifact is dropped and a whole
\* fallback CSV export (start, poll, download, save) is run.
C29_LateErrorRunsFallback ==
    RaisedAfterDownload =>
        /\ ex.hundredAt >= 1
        /\ ex.downloads >= 1
        /\ ex.checksAtDownload = ex.hundredAt
        /\ ex.errorMessage \in ParseErrors => (ex.format = "json" /\ ex.saveToFile = "")
        /\ ex.pc \in {"fbStart", "fbSleep", "fbCheck", "fbDownload", "fbSave", "done"}
        /\ ex.pc \in {"fbStart", "fbSleep", "fbCheck", "fbDownload"} =>
              (ex.fileSizeBytes = -1 /\ ex.result = NoResult)
        /\ ex.pc # "fbStart" =>
              (ex.starts = 2 /\ ex.startRequests[2].format = "csv")
        /\ ex.pc = "done" =>
              /\ ~ex.result.inline
              /\ ex.result.originalError = ex.errorMessage
              /\ \/ ex.result.isError
                 \/ ex.result.status = "fallback_timeout" /\ ex.fallbackChecks = 30
                 \/ /\ ex.result.status = "completed_via_fallback"
                    /\ ex.fallbackChecks >= 1
                    /\ ex.downloads = 2
                    /\ ex.result.savedToFile

\* JSON.parse rejected the primary payload and the fallback CSV export was
\* started, polled, downloaded and saved
C29_Witness ==
    /\ ex.errorMessage \in ParseErrors
    /\ ex.pc = "done"
    /\ ex.result.status = "completed_via_fallback"
    /\ ex.downloads = 2
    /\ ex.fallbackChecks = 2

\* the primary start call itself raised: no status check was ever made on
\* the primary export
PrimaryStartRaised == ex.errorMessage \in Errors /\ ex.checks = 0 /\ ex.progressId = ""

\* C30: the fallback path ignores waitForCompletion and saveToFile: when
\* the primary start call raises, the fallback export is polled (up to 30
\* checks) even for a fire-and-forget call, and a completed fallback
\* artifact is always written to an auto-named file, whatever its size.
C30_FallbackIgnoresWaitAndSaveArgs ==
    /\ PrimaryRaised =>
          /\ ex.result.status # "started"
          /\ ex.result.status # "completed"
          /\ ex.fallbackChecks <= maxAttempts
          /\ (ex.pc = "done" /\ ~ex.result.isError) =>
                /\ ex.starts = 2
                /\ ex.fallbackChecks >= 1
                /\ ex.result.status \in {"completed_via_fallback", "fallback_timeout"}
                /\ ex.result.status = "fallback_timeout" =>
                      (ex.fallbackChecks = maxAttempts /\ ex.fileSizeBytes = -1)
    /\ ex.result.status = "completed_via_fallback" =>
          /\ ex.result.savedToFile
          /\ ~ex.result.inline
          /\ ex.result.fileSize = ex.fileSizeBytes
          /\ ex.result.filePath =
                filePath(ex.surveyId, "csv", "", Suffix(ex.tool))
          /\ ex.result.filePath # <<"Downloads", ex.saveToFile>>
          /\ ex.result.wasAutoSaved = isLargeFile(ex.fileSizeBytes)

\* a fire-and-forget call with a file name whose start call raised: the
\* fallback was polled and its small artifact went to an auto-named file
C30_Witness ==
    /\ PrimaryStartRaised
    /\ ex.waitForCompletion = "false"
    /\ ex.saveToFile # ""
    /\ ex.pc = "done"
    /\ ex.result.status = "completed_via_fallback"
    /\ ex.fallbackChecks = 1
    /\ ex.fileSizeBytes = largeFileBytes
    /\ ~ex.result.wasAutoSaved

====
